---- MODULE Spec2Model ----
(***************************************************************************)
(* Secret-Manager: the encrypted vault in its two persistence layouts.     *)
(*   document form : step_2_add_encryption.py   (one encrypted JSON blob)  *)
(*   tabular form  : step_3_database_connection.py (SQLite, row per entry) *)
(* Strings are sequences of one-character strings.  PBKDF2 and Fernet are  *)
(* modelled symbolically: a key is the triple of the inputs it was derived *)
(* from (PBKDF2 is taken to be injective), a token is the pair of the key  *)
(* and the payload it was produced from (tokens are taken up to their IV   *)
(* and timestamp).  os.urandom is a source of salts that never repeats.    *)
(***************************************************************************)
EXTENDS Integers, Sequences, FiniteSets, TLC

\* ------------------------------------------------------------------ bounds
\* Number of salts os.urandom may hand out in one behaviour (vault creation
\* plus rotations).
MaxSalts == 3

\* ------------------------------------------------------- program constants
KDF_ITERATIONS == 200000
SALT_BYTES == 16
MIN_SALT_LEN == 8

\* ------------------------------------------------------------------ inputs
\* What the user may type at the prompts.
PasswordInputs == { <<>>, <<"p">>, <<"p", " ">> }
NameInputs == { <<>>, <<"b">>, <<" ", "a", "b">> }
CredInputs == { <<>>, <<"x">>, <<"y", " ">> }

\* ----------------------------------------------------------------- strings
\* Code point of a character (ordering of str / SQLite BINARY collation).
Code(c) == CASE c = " " -> 32 [] c = "a" -> 97 [] c = "b" -> 98
             [] c = "p" -> 112 [] c = "x" -> 120 [] c = "y" -> 121

IsSpace(c) == c = " "

RECURSIVE LStrip(_)
LStrip(s) == IF s # <<>> /\ IsSpace(Head(s)) THEN LStrip(Tail(s)) ELSE s

RECURSIVE RStrip(_)
RStrip(s) == IF s # <<>> /\ IsSpace(s[Len(s)])
             THEN RStrip(SubSeq(s, 1, Len(s) - 1)) ELSE s

\* str.strip()
Strip(s) == RStrip(LStrip(s))

\* a < b on str
RECURSIVE StrLess(_, _)
StrLess(a, b) ==
    IF a = <<>> THEN b # <<>>
    ELSE IF b = <<>> THEN FALSE
    ELSE IF Head(a) = Head(b) THEN StrLess(Tail(a), Tail(b))
    ELSE Code(Head(a)) < Code(Head(b))

\* ------------------------------------------------------------- conversions
\* str.encode("utf-8") / bytes.decode("utf-8")
Utf8Encode(s) == [utf8 |-> s]
Utf8Decode(b) == b.utf8

\* base64.b64encode(..).decode("ascii") / base64.b64decode
B64Encode(b) == [b64 |-> b]
B64Decode(t) == t.b64

\* str(int) / int(str)
IntToStr(n) == [digits |-> n]
StrToInt(t) == t.digits

\* json.dumps / json.loads of the vault dict
JsonDumps(d) == [json |-> d]
JsonLoads(t) == t.json

\* ------------------------------------------------------------------ crypto
\* os.urandom(SALT_BYTES): the n-th salt drawn.
Urandom(n) == [id |-> n, len |-> SALT_BYTES]

NoSalt == [id |-> 0, len |-> 0]
NoKey == [ok |-> FALSE, pw |-> Utf8Encode(<<>>), salt |-> NoSalt, iters |-> 0]

\* derive_fernet_key: ok = FALSE stands for the ValueError it raises.
derive_fernet_key(password, salt, iterations) ==
    IF password = <<>> THEN NoKey
    ELSE IF salt.len < MIN_SALT_LEN THEN NoKey
    ELSE [ok |-> TRUE, pw |-> Utf8Encode(password), salt |-> salt,
          iters |-> iterations]

\* Fernet(key).encrypt(payload)
FernetEncrypt(key, payload) == [key |-> key, payload |-> payload]

\* Fernet(key).decrypt(token): ok = FALSE stands for InvalidToken.
FernetDecrypt(key, token) ==
    IF token.key = key THEN [ok |-> TRUE, payload |-> token.payload]
    ELSE [ok |-> FALSE, payload |-> Utf8Encode(<<>>)]

\* ------------------------------------------------------------------- state
VARIABLES
    form,       \* which program runs: "document" (step 2) or "tabular" (step 3)
    pc,         \* "closed" (no process), "menu" (in the loop), "reencrypt"
                \* (inside change_master_password, after its first commit)
    dbExists,   \* tabular: os.path.exists(DB_FILE)
    meta,       \* tabular: table meta, key -> value
    secrets,    \* tabular: table secrets, rows in rowid order
    file,       \* document: vault.enc.json
    vault,      \* document: the in-memory dict, in insertion order
    password,   \* document: main's password (the tabular main never reads
                \* master_password again after deriving the key)
    fernet,     \* tabular: main's fernet
    rot,        \* locals of change_master_password between its two commits
    nextSalt,   \* number of the next salt os.urandom returns
    last,       \* what the last operation was given and what it reported
    userPw,     \* the master password as the user last set it (typed text)
    rotated,    \* outcome of the session's most recent rotation that wrote
    snap,       \* at exit: what the session could retrieve
    masterPw    \* the password of the vault's first session, or the one it
                \* was last rotated to, as the user typed it

vars == <<form, pc, dbExists, meta, secrets, file, vault, password, fernet,
          rot, nextSalt, last, userPw, rotated, snap, masterPw>>

dbVars == <<dbExists, meta, secrets>>
docVars == <<file, vault>>

NoRot == [secrets_plain |-> <<>>, new_pw_1 |-> <<>>, new_salt |-> NoSalt,
          typed |-> <<>>, old_meta |-> <<>>]

NoSnap == [valid |-> FALSE, pw |-> <<>>, rotated |-> "none", entries |-> {},
           names |-> {}]

Report(op, name, cred, res, out, had) ==
    [op |-> op, name |-> name, cred |-> cred, res |-> res, out |-> out,
     had |-> had]

\* ---------------------------------------------------------- SQL statements
\* SELECT ... FROM secrets WHERE service=?  (fetchone)
RowsOf(rows, service) == SelectSeq(rows, LAMBDA r : r.service = service)

\* INSERT INTO secrets ... always adding a row (no conflict clause)
SqlInsertAlways(rows, service, token) ==
    Append(rows, [service |-> service, ciphertext |-> token])

\* INSERT INTO secrets(service, ciphertext) VALUES(?, ?)
\*   ON CONFLICT(service) DO UPDATE SET ciphertext=excluded.ciphertext
SqlUpsert(rows, service, token) ==
    IF \E i \in 1..Len(rows) : rows[i].service = service
    THEN [i \in 1..Len(rows) |->
             IF rows[i].service = service
             THEN [rows[i] EXCEPT !.ciphertext = token] ELSE rows[i]]
    ELSE Append(rows, [service |-> service, ciphertext |-> token])

\* UPDATE secrets SET ciphertext=? WHERE service=?
SqlUpdate(rows, service, token) ==
    [i \in 1..Len(rows) |->
        IF rows[i].service = service
        THEN [rows[i] EXCEPT !.ciphertext = token] ELSE rows[i]]

\* DELETE FROM secrets, the WHERE clause left out
SqlDeleteAll(rows, service) == <<>>

\* DELETE FROM secrets WHERE service=?
SqlDelete(rows, service) == SelectSeq(rows, LAMBDA r : r.service # service)

\* UPDATE meta SET value=? WHERE key=?
MetaUpdate(m, k, v) == IF k \in DOMAIN m THEN [m EXCEPT ![k] = v] ELSE m

RECURSIVE InsertSorted(_, _)
InsertSorted(sorted, x) ==
    IF sorted = <<>> THEN <<x>>
    ELSE IF StrLess(x, Head(sorted)) THEN <<x>> \o sorted
    ELSE <<Head(sorted)>> \o InsertSorted(Tail(sorted), x)

\* sorted(...) / ORDER BY ... ASC on a sequence of str
RECURSIVE SortAsc(_)
SortAsc(s) == IF s = <<>> THEN <<>> ELSE InsertSorted(SortAsc(Tail(s)), Head(s))

ServiceColumn(rows) == [i \in 1..Len(rows) |-> rows[i].service]

\* SELECT service FROM secrets, in rowid order
SqlSelectUnordered(rows) == ServiceColumn(rows)

\* SELECT service FROM secrets ORDER BY service ASC
SqlSelectServices(rows) == SortAsc(ServiceColumn(rows))

\* ------------------------------------------------------- tabular: database
\* open_db writing fresh metadata on every open
open_db_reinit(exists, m, n) ==
    [exists |-> TRUE,
     meta |-> [k \in {"salt", "iterations"} |->
                  IF k = "salt" THEN B64Encode(Urandom(n))
                  ELSE IntToStr(KDF_ITERATIONS)],
     drew |-> TRUE]

\* open_db: the database it leaves behind.  CREATE TABLE IF NOT EXISTS keeps
\* existing tables; the metadata is inserted only when the file was absent.
open_db(exists, m, n) ==
    LET init_needed == ~exists
    IN  [exists |-> TRUE,
         meta |-> IF init_needed
                  THEN [k \in {"salt", "iterations"} |->
                           IF k = "salt" THEN B64Encode(Urandom(n))
                           ELSE IntToStr(KDF_ITERATIONS)]
                  ELSE m,
         drew |-> init_needed]

\* get_params: ok = FALSE stands for the ValueError on a missing row.
get_params(m) ==
    IF "salt" \notin DOMAIN m
    THEN [ok |-> FALSE, salt |-> NoSalt, iterations |-> 0]
    ELSE IF "iterations" \notin DOMAIN m
    THEN [ok |-> FALSE, salt |-> NoSalt, iterations |-> 0]
    ELSE [ok |-> TRUE, salt |-> B64Decode(m["salt"]),
          iterations |-> StrToInt(m["iterations"])]

\* Option 2 on the rows: the row fetched and what decrypting it gives.
TabGet(rows, key, service) ==
    LET found == RowsOf(rows, service)
    IN  IF found = <<>> THEN [res |-> "notfound", out |-> <<>>]
        ELSE LET d == FernetDecrypt(key, found[1].ciphertext)
             IN  IF d.ok THEN [res |-> "found", out |-> Utf8Decode(d.payload)]
                 ELSE [res |-> "invalid", out |-> <<>>]

\* What a session holding key can retrieve: its (service, credential) pairs.
TabEntries(rows, key) ==
    { <<rows[i].service, TabGet(rows, key, rows[i].service).out>> :
        i \in { j \in 1..Len(rows) :
                  TabGet(rows, key, rows[j].service).res = "found" } }

StoredNames(rows) == { rows[i].service : i \in 1..Len(rows) }

\* main, lines 147-152: open the database, read the parameters, derive the key.
TabOpen(p) ==
    /\ form = "tabular"
    /\ pc = "closed"
    /\ LET db == open_db(dbExists, meta, nextSalt)
           params == get_params(db.meta)
           key == derive_fernet_key(p, params.salt, params.iterations)
       IN  /\ db.drew => nextSalt <= MaxSalts
           /\ dbExists' = db.exists
           /\ meta' = db.meta
           /\ nextSalt' = IF db.drew THEN nextSalt + 1 ELSE nextSalt
           /\ IF params.ok /\ key.ok
              THEN /\ pc' = "menu"
                   /\ fernet' = key
                   /\ userPw' = p
                   /\ masterPw' = IF masterPw = <<>> THEN p ELSE masterPw
                   /\ last' = Report("open", <<>>, p, "ok", <<>>, dbExists)
              ELSE /\ pc' = "closed"
                   /\ UNCHANGED <<fernet, userPw, masterPw>>
                   /\ last' = Report("open", <<>>, p, "ValueError", <<>>,
                                     dbExists)
    /\ rotated' = "none"
    /\ UNCHANGED <<form, secrets, docVars, password, rot, snap>>

\* The cell written without encrypting it.
PlainSecret(key, api_key) == Utf8Encode(api_key)

\* Line 168: the cell a put stores, fernet.encrypt(api_key_1.encode("utf-8")).
EncryptSecret(key, api_key) == FernetEncrypt(key, Utf8Encode(api_key))

\* Option 1, lines 157-178.  dberr: the INSERT raises.
TabPut(n, c1, c2, dberr) ==
    /\ form = "tabular"
    /\ pc = "menu"
    /\ LET service == Strip(n)
           api_key_1 == Strip(c1)
           api_key_2 == Strip(c2)
           token == EncryptSecret(fernet, api_key_1)
           had == RowsOf(secrets, service) # <<>>
       IN  IF service = <<>>
           THEN /\ last' = Report("put", n, c1, "empty_name", <<>>, FALSE)
                /\ UNCHANGED <<secrets, rotated>>
           ELSE IF api_key_1 = <<>> \/ api_key_1 # api_key_2
           THEN /\ last' = Report("put", n, c1,
                                  IF api_key_1 = <<>> THEN "empty_key"
                                  ELSE "mismatch", <<>>, had)
                /\ UNCHANGED <<secrets, rotated>>
           ELSE IF dberr
           THEN /\ last' = Report("put", n, c1, "dberror", <<>>, had)
                /\ UNCHANGED <<secrets, rotated>>
           ELSE /\ secrets' = SqlUpsert(secrets, service, token)
                /\ last' = Report("put", n, c1, "stored", <<>>, had)
                /\ rotated' = IF rotated = "ok" THEN "ok_then_changed"
                              ELSE rotated
    /\ snap' = NoSnap
    /\ UNCHANGED <<form, pc, dbExists, meta, docVars, password, fernet, rot,
                   nextSalt, userPw, masterPw>>

\* Option 2, lines 180-191.
TabRetrieve(n) ==
    /\ form = "tabular"
    /\ pc = "menu"
    /\ LET service == Strip(n)
           got == TabGet(secrets, fernet, service)
       IN  last' = Report("get", n, <<>>, got.res, got.out,
                          RowsOf(secrets, service) # <<>>)
    /\ snap' = NoSnap
    /\ UNCHANGED <<form, pc, dbVars, docVars, password, fernet, rot, nextSalt,
                   userPw, rotated, masterPw>>

\* Option 3, lines 193-200.
TabList ==
    /\ form = "tabular"
    /\ pc = "menu"
    /\ last' = Report("list", <<>>, <<>>, "ok", SqlSelectServices(secrets),
                      FALSE)
    /\ snap' = NoSnap
    /\ UNCHANGED <<form, pc, dbVars, docVars, password, fernet, rot, nextSalt,
                   userPw, rotated, masterPw>>

\* Option 4, lines 202-215.  yes: the answer to confirm().
TabDelete(n, yes) ==
    /\ form = "tabular"
    /\ pc = "menu"
    /\ LET svc == Strip(n)
           after == SqlDelete(secrets, svc)
           rowcount == Len(secrets) - Len(after)
           had == RowsOf(secrets, svc) # <<>>
       IN  IF svc = <<>>
           THEN /\ last' = Report("delete", n, <<>>, "empty_name", <<>>, FALSE)
                /\ UNCHANGED <<secrets, rotated>>
           ELSE IF ~yes
           THEN /\ last' = Report("delete", n, <<>>, "cancelled", <<>>, had)
                /\ UNCHANGED <<secrets, rotated>>
           ELSE /\ secrets' = after
                /\ last' = Report("delete", n, <<>>,
                                  IF rowcount # 0 THEN "deleted"
                                  ELSE "notfound", <<>>, had)
                /\ rotated' = IF rotated = "ok" /\ rowcount # 0
                              THEN "ok_then_changed" ELSE rotated
    /\ snap' = NoSnap
    /\ UNCHANGED <<form, pc, dbExists, meta, docVars, password, fernet, rot,
                   nextSalt, userPw, masterPw>>

\* ------------------------------------------------------ tabular: rotation
\* Lines 104-112: decrypt the rows in order; ok = FALSE when one fails.
RECURSIVE DecryptRows(_, _)
DecryptRows(rows, key) ==
    IF rows = <<>> THEN [ok |-> TRUE, plain |-> <<>>]
    ELSE LET d == FernetDecrypt(key, Head(rows).ciphertext)
             rest == DecryptRows(Tail(rows), key)
         IN  IF ~d.ok THEN [ok |-> FALSE, plain |-> <<>>]
             ELSE IF ~rest.ok THEN rest
             ELSE [ok |-> TRUE,
                   plain |-> <<[service |-> Head(rows).service,
                                api_key |-> Utf8Decode(d.payload)]>>
                             \o rest.plain]

\* Lines 135-138: the table after the first upto UPDATEs of the loop.
RECURSIVE ReencryptRows(_, _, _, _)
ReencryptRows(rows, plain, key, upto) ==
    IF upto = 0 THEN rows
    ELSE SqlUpdate(ReencryptRows(rows, plain, key, upto - 1),
                   plain[upto].service,
                   FernetEncrypt(key, Utf8Encode(plain[upto].api_key)))

\* Lines 121-126: the meta table after the two UPDATEs and the commit.
CommitNewParams(m, new_salt) ==
    MetaUpdate(MetaUpdate(m, "salt", B64Encode(new_salt)),
               "iterations", IntToStr(KDF_ITERATIONS))

\* Lines 106-119: the outcome of the two validations.
RotateVerdict(rows, key, np1, np2) ==
    IF ~DecryptRows(rows, key).ok THEN "decrypt_failed"
    ELSE IF Strip(np1) = <<>> \/ Strip(np1) # Strip(np2) THEN "bad_password"
    ELSE "ok"

\* The parameters written although the validation did not pass.
ParamsWrittenFirst(m, verdict, new_salt) == CommitNewParams(m, new_salt)

\* Lines 112, 119, 121-126: meta is written only once both validations passed.
ParamsAfterValidation(m, verdict, new_salt) ==
    IF verdict = "ok" THEN CommitNewParams(m, new_salt) ELSE m

\* change_master_password, lines 104-126: validation, then the new salt and
\* iterations are written to meta and committed.
RotateBegin(np1, np2) ==
    /\ form = "tabular"
    /\ pc = "menu"
    /\ LET dec == DecryptRows(secrets, fernet)
           new_pw_1 == Strip(np1)
           new_salt == Urandom(nextSalt)
           verdict == RotateVerdict(secrets, fernet, np1, np2)
       IN  IF verdict # "ok"
           THEN /\ last' = Report("rotate", <<>>, np1, verdict, <<>>, FALSE)
                /\ meta' = ParamsAfterValidation(meta, verdict, new_salt)
                /\ UNCHANGED <<pc, rot, nextSalt>>
           ELSE /\ nextSalt <= MaxSalts
                /\ meta' = ParamsAfterValidation(meta, verdict, new_salt)
                /\ nextSalt' = nextSalt + 1
                /\ rot' = [secrets_plain |-> dec.plain, new_pw_1 |-> new_pw_1,
                           new_salt |-> new_salt, typed |-> np1,
                           old_meta |-> meta]
                /\ pc' = "reencrypt"
                /\ last' = Report("rotate", <<>>, np1, "params_committed",
                                  <<>>, FALSE)
    /\ snap' = NoSnap
    /\ UNCHANGED <<form, dbExists, secrets, docVars, password, fernet, userPw,
                   rotated, masterPw>>

\* change_master_password, lines 129-143: derive the new key and re-encrypt
\* the rows in one transaction.  failAt = 0: every statement and the commit
\* succeed; failAt = k: the k-th UPDATE (or, past the last row, the commit)
\* raises and the transaction is rolled back.
RotateRows(failAt) ==
    /\ form = "tabular"
    /\ pc = "reencrypt"
    /\ failAt \in 0..(Len(rot.secrets_plain) + 1)
    /\ LET new_key == derive_fernet_key(rot.new_pw_1, rot.new_salt,
                                        KDF_ITERATIONS)
           done == ReencryptRows(secrets, rot.secrets_plain, new_key,
                                 Len(rot.secrets_plain))
       IN  IF failAt = 0
           THEN /\ secrets' = done
                /\ fernet' = new_key
                /\ userPw' = rot.typed
                /\ masterPw' = rot.typed
                /\ rotated' = "ok"
                /\ last' = Report("rotate", <<>>, rot.typed, "rotated", <<>>,
                                  FALSE)
           ELSE /\ secrets' = secrets
                /\ fernet' = fernet
                /\ userPw' = userPw
                /\ masterPw' = masterPw
                /\ rotated' = "failed"
                /\ last' = Report("rotate", <<>>, rot.typed, "reencrypt_error",
                                  <<>>, FALSE)
    /\ pc' = "menu"
    /\ rot' = NoRot
    /\ snap' = NoSnap
    /\ UNCHANGED <<form, dbExists, meta, docVars, password, nextSalt>>

\* The process is killed inside change_master_password after the commit of
\* line 126: the open transaction, if any, is lost; what was committed stays.
RotateCrash ==
    /\ form = "tabular"
    /\ pc = "reencrypt"
    /\ pc' = "closed"
    /\ rot' = NoRot
    /\ fernet' = NoKey
    /\ UNCHANGED password
    /\ userPw' = <<>>
    /\ rotated' = "crashed"
    /\ last' = Report("rotate", <<>>, rot.typed, "crashed", <<>>, FALSE)
    /\ snap' = NoSnap
    /\ UNCHANGED <<form, dbVars, docVars, nextSalt, masterPw>>

\* Option 6, lines 220-222.
TabExit ==
    /\ form = "tabular"
    /\ pc = "menu"
    /\ pc' = "closed"
    /\ fernet' = NoKey
    /\ snap' = [valid |-> TRUE, pw |-> userPw, rotated |-> rotated,
                entries |-> TabEntries(secrets, fernet),
                names |-> StoredNames(secrets)]
    /\ userPw' = <<>>
    /\ last' = Report("exit", <<>>, <<>>, "ok", <<>>, FALSE)
    /\ UNCHANGED <<form, dbVars, docVars, password, rot, nextSalt, rotated,
                   masterPw>>

\* ----------------------------------------------------------- document form
\* Python values as json.load returns them; the field a value has is its
\* type: b64, digits and chars are str, int is int, none is None, list is
\* list and dict is dict.
PyInt(n) == [int |-> n]

PyNone == [none |-> TRUE]

PyDict(fields) == [dict |-> fields]

IsPyStr(v) == DOMAIN v \cap {"b64", "digits", "chars"} # {}

\* The text of a file that holds no JSON value: an empty or cut-off file.
NotJson(chars) == [text |-> chars]

NoFile == [exists |-> FALSE, doc |-> NotJson(<<>>)]

\* doc[k]: TypeError on a value that is no dict, KeyError on a missing key.
GetItem(doc, k) ==
    IF "dict" \notin DOMAIN doc THEN [res |-> "TypeError"]
    ELSE IF k \notin DOMAIN doc.dict THEN [res |-> "KeyError"]
    ELSE [res |-> "ok", val |-> doc.dict[k]]

\* base64.b64decode(v): binascii.Error is a ValueError.
b64decode(v) ==
    IF "b64" \in DOMAIN v THEN [res |-> "ok", bytes |-> B64Decode(v)]
    ELSE IF IsPyStr(v) THEN [res |-> "ValueError"]
    ELSE [res |-> "TypeError"]

\* int(v)
int(v) ==
    IF "int" \in DOMAIN v THEN [res |-> "ok", int |-> v.int]
    ELSE IF "digits" \in DOMAIN v THEN [res |-> "ok", int |-> StrToInt(v)]
    ELSE IF IsPyStr(v) THEN [res |-> "ValueError"]
    ELSE [res |-> "TypeError"]

\* new_vault_doc
new_vault_doc(ciphertext, salt, iterations) ==
    PyDict([version |-> PyInt(1), kdf |-> [chars |-> <<"P">>],
            iterations |-> PyInt(iterations),
            salt |-> B64Encode(salt), ciphertext |-> B64Encode(ciphertext)])

\* read_vault_doc: res names the exception json.load raises, or "ok".
read_vault_doc(f) ==
    IF "json" \in DOMAIN f.doc THEN [res |-> "ok", doc |-> JsonLoads(f.doc)]
    ELSE [res |-> "JSONDecodeError"]

\* get_salt_and_iterations: res names the exception it raises, or "ok".
get_salt_and_iterations(doc) ==
    LET s == GetItem(doc, "salt")
        b == b64decode(s.val)
        i == GetItem(doc, "iterations")
        n == int(i.val)
    IN  IF s.res # "ok" THEN [res |-> s.res]
        ELSE IF b.res # "ok" THEN [res |-> b.res]
        ELSE IF i.res # "ok" THEN [res |-> i.res]
        ELSE IF n.res # "ok" THEN [res |-> n.res]
        ELSE [res |-> "ok", salt |-> b.bytes, iterations |-> n.int]

\* encrypt_vault_dict: ok = FALSE stands for derive_fernet_key's ValueError.
encrypt_vault_dict(v, pw, salt, iterations) ==
    LET key_b64 == derive_fernet_key(pw, salt, iterations)
        plaintext == Utf8Encode(JsonDumps(v))
        token == FernetEncrypt(key_b64, plaintext)
    IN  [ok |-> key_b64.ok, doc |-> new_vault_doc(token, salt, iterations)]

\* decrypt_vault_dict: res names the exception it raises, or "ok".
decrypt_vault_dict(doc, pw) ==
    LET si == get_salt_and_iterations(doc)
        key_b64 == derive_fernet_key(pw, si.salt, si.iterations)
        c == GetItem(doc, "ciphertext")
        token == b64decode(c.val)
        d == FernetDecrypt(key_b64, token.bytes)
    IN  IF si.res # "ok" THEN [res |-> si.res, vault |-> <<>>]
        ELSE IF ~key_b64.ok THEN [res |-> "ValueError", vault |-> <<>>]
        ELSE IF c.res # "ok" THEN [res |-> c.res, vault |-> <<>>]
        ELSE IF token.res # "ok" THEN [res |-> token.res, vault |-> <<>>]
        ELSE IF ~d.ok THEN [res |-> "InvalidToken", vault |-> <<>>]
        ELSE [res |-> "ok", vault |-> JsonLoads(Utf8Decode(d.payload))]

\* load_or_init_vault, lines 104-112: the existing file is read and
\* decrypted; InvalidToken is raised again, JSONDecodeError, KeyError and
\* ValueError leave as ValueError("Vault file is malformed"), and every
\* other exception leaves as it is.
load_existing(f, pw) ==
    LET doc == read_vault_doc(f)
        got == decrypt_vault_dict(doc.doc, pw)
    IN  IF doc.res # "ok" THEN [res |-> "ValueError", vault |-> <<>>]
        ELSE IF got.res \in {"KeyError", "ValueError"}
        THEN [res |-> "ValueError", vault |-> <<>>]
        ELSE got

\* write_vault_doc, run to its end.
write_vault_doc(doc) == [exists |-> TRUE, doc |-> JsonDumps(doc)]

\* save_vault drawing another salt at every save instead of reusing the
\* stored one.
save_vault_resalt(v, pw, f) ==
    LET si == get_salt_and_iterations(read_vault_doc(f).doc)
        new_salt == Urandom(si.salt.id + 1)
        new_doc == encrypt_vault_dict(v, pw, new_salt, si.iterations)
    IN  write_vault_doc(new_doc.doc)

\* save_vault: the file it leaves (the password of a session is non-empty).
save_vault(v, pw, f) ==
    LET si == get_salt_and_iterations(read_vault_doc(f).doc)
        new_doc == encrypt_vault_dict(v, pw, si.salt, si.iterations)
    IN  write_vault_doc(new_doc.doc)

\* vault[service] = api_key appending a second entry for a name it holds
DictSetAppend(d, service, api_key) ==
    Append(d, [service |-> service, api_key |-> api_key])

\* vault[service] = api_key
DictSet(d, service, api_key) ==
    IF \E i \in 1..Len(d) : d[i].service = service
    THEN [i \in 1..Len(d) |->
             IF d[i].service = service
             THEN [d[i] EXCEPT !.api_key = api_key] ELSE d[i]]
    ELSE Append(d, [service |-> service, api_key |-> api_key])

\* service in vault / vault[service]
DictGet(d, service) ==
    LET found == SelectSeq(d, LAMBDA e : e.service = service)
    IN  IF found = <<>> THEN [res |-> "notfound", out |-> <<>>]
        ELSE [res |-> "found", out |-> found[1].api_key]

\* vault.keys()
DictKeys(d) == [i \in 1..Len(d) |-> d[i].service]

DictEntries(d) == { <<d[i].service, d[i].api_key>> : i \in 1..Len(d) }

\* main, lines 136-142, with load_or_init_vault.
DocOpen(p) ==
    /\ form = "document"
    /\ pc = "closed"
    /\ IF ~file.exists
       THEN LET salt == Urandom(nextSalt)
                empty_doc == encrypt_vault_dict(<<>>, p, salt, KDF_ITERATIONS)
            IN  IF empty_doc.ok
                THEN /\ nextSalt <= MaxSalts
                     /\ file' = write_vault_doc(empty_doc.doc)
                     /\ nextSalt' = nextSalt + 1
                     /\ vault' = <<>>
                     /\ pc' = "menu"
                     /\ password' = p
                     /\ userPw' = p
                     /\ masterPw' = p
                     /\ last' = Report("open", <<>>, p, "ok", <<>>, FALSE)
                ELSE /\ last' = Report("open", <<>>, p, "ValueError", <<>>,
                                       FALSE)
                     /\ UNCHANGED <<file, nextSalt, vault, pc, password,
                                    userPw, masterPw>>
       ELSE LET got == load_existing(file, p)
            IN  IF got.res = "ok"
                THEN /\ vault' = got.vault
                     /\ pc' = "menu"
                     /\ password' = p
                     /\ userPw' = p
                     /\ last' = Report("open", <<>>, p, "ok", <<>>, TRUE)
                     /\ UNCHANGED <<file, nextSalt, masterPw>>
                ELSE /\ last' = Report("open", <<>>, p, got.res, <<>>, TRUE)
                     /\ UNCHANGED <<file, nextSalt, vault, pc, password,
                                    userPw, masterPw>>
    /\ UNCHANGED <<form, dbVars, fernet, rot, rotated, snap>>

\* Option 1, lines 147-156.
DocPut(n, c) ==
    /\ form = "document"
    /\ pc = "menu"
    /\ LET service == Strip(n)
           api_key == Strip(c)
           had == DictGet(vault, service).res = "found"
       IN  IF service = <<>>
           THEN /\ last' = Report("put", n, c, "empty_name", <<>>, FALSE)
                /\ UNCHANGED <<vault, file>>
           ELSE /\ vault' = DictSet(vault, service, api_key)
                /\ file' = save_vault(vault', password, file)
                /\ last' = Report("put", n, c, "stored", <<>>, had)
    /\ snap' = NoSnap
    /\ UNCHANGED <<form, pc, dbVars, password, fernet, rot, nextSalt, userPw,
                   rotated, masterPw>>

\* Option 2, lines 158-163.
DocRetrieve(n) ==
    /\ form = "document"
    /\ pc = "menu"
    /\ LET service == Strip(n)
           got == DictGet(vault, service)
       IN  last' = Report("get", n, <<>>, got.res, got.out,
                          got.res = "found")
    /\ snap' = NoSnap
    /\ UNCHANGED <<form, pc, dbVars, docVars, password, fernet, rot, nextSalt,
                   userPw, rotated, masterPw>>

\* Option 3, lines 165-171.
DocList ==
    /\ form = "document"
    /\ pc = "menu"
    /\ last' = Report("list", <<>>, <<>>, "ok", SortAsc(DictKeys(vault)),
                      FALSE)
    /\ snap' = NoSnap
    /\ UNCHANGED <<form, pc, dbVars, docVars, password, fernet, rot, nextSalt,
                   userPw, rotated, masterPw>>

\* Option 4, lines 173-175: the in-memory dict dies with the process.
DocExit ==
    /\ form = "document"
    /\ pc = "menu"
    /\ pc' = "closed"
    /\ snap' = [valid |-> TRUE, pw |-> userPw, rotated |-> rotated,
                entries |-> DictEntries(vault),
                names |-> { vault[i].service : i \in 1..Len(vault) }]
    /\ vault' = <<>>
    /\ password' = <<>>
    /\ userPw' = <<>>
    /\ last' = Report("exit", <<>>, <<>>, "ok", <<>>, FALSE)
    /\ UNCHANGED <<form, dbVars, file, fernet, rot, nextSalt, rotated,
                   masterPw>>

\* ------------------------------------------------------------ specification
Init ==
    /\ form \in {"document", "tabular"}
    /\ pc = "closed"
    /\ dbExists = FALSE
    /\ meta = <<>>
    /\ secrets = <<>>
    /\ file = NoFile
    /\ vault = <<>>
    /\ password = <<>>
    /\ fernet = NoKey
    /\ rot = NoRot
    /\ nextSalt = 1
    /\ last = Report("none", <<>>, <<>>, "ok", <<>>, FALSE)
    /\ userPw = <<>>
    /\ rotated = "none"
    /\ snap = NoSnap
    /\ masterPw = <<>>

Next ==
    \/ \E p \in PasswordInputs : TabOpen(p)
    \/ \E n \in NameInputs, c1 \in CredInputs, c2 \in CredInputs,
          dberr \in BOOLEAN : TabPut(n, c1, c2, dberr)
    \/ \E n \in NameInputs : TabRetrieve(n)
    \/ TabList
    \/ \E n \in NameInputs, yes \in BOOLEAN : TabDelete(n, yes)
    \/ \E np1 \in PasswordInputs, np2 \in PasswordInputs : RotateBegin(np1, np2)
    \/ \E failAt \in 0..(Len(rot.secrets_plain) + 1) : RotateRows(failAt)
    \/ RotateCrash
    \/ TabExit
    \/ \E p \in PasswordInputs : DocOpen(p)
    \/ \E n \in NameInputs, c \in CredInputs : DocPut(n, c)
    \/ \E n \in NameInputs : DocRetrieve(n)
    \/ DocList
    \/ DocExit

Spec == Init /\ [][Next]_vars

\* ------------------------------------------------- interruptions and damage
\* open_db killed after sqlite3.connect (line 44) has created the file and
\* before the commit of line 66: the file exists and meta is empty.
open_db_cut == [exists |-> TRUE, meta |-> <<>>]

\* Where write_vault_doc can be killed or fail: before open(FILE, "w"), after
\* it has truncated the file, while json.dump is writing, and after the dump.
CutPoints == {"before_open", "after_open", "in_dump", "after_dump"}

\* The file an interrupted write_vault_doc(doc) leaves of the file f.
write_vault_doc_cut(f, doc, at) ==
    CASE at = "before_open" -> f
      [] at = "after_open" -> [exists |-> TRUE, doc |-> NotJson(<<>>)]
      [] at = "in_dump" -> [exists |-> TRUE, doc |-> NotJson(<<"{">>)]
      [] at = "after_dump" -> write_vault_doc(doc)

\* What the file may hold when something other than the program wrote it.
DamageKinds ==
    { "truncated", "list", "no_salt", "salt_int", "salt_bad", "salt_short",
      "iter_none", "iter_digits", "iter_word", "no_ciphertext", "ct_int",
      "ct_flipped" }

SetField(doc, k, v) == PyDict([doc.dict EXCEPT ![k] = v])

DelField(doc, k) == PyDict([j \in DOMAIN doc.dict \ {k} |-> doc.dict[j]])

\* The text of a well-formed file after one kind of damage.
Damaged(text, kind) ==
    LET doc == JsonLoads(text)
        salt == B64Decode(doc.dict.salt)
        token == B64Decode(doc.dict.ciphertext)
    IN  CASE kind = "truncated" -> NotJson(<<"{">>)
          [] kind = "list" -> JsonDumps([list |-> <<>>])
          [] kind = "no_salt" -> JsonDumps(DelField(doc, "salt"))
          [] kind = "salt_int" -> JsonDumps(SetField(doc, "salt", PyInt(7)))
          [] kind = "salt_bad" ->
                JsonDumps(SetField(doc, "salt", [chars |-> <<"!">>]))
          [] kind = "salt_short" ->
                JsonDumps(SetField(doc, "salt",
                    B64Encode([salt EXCEPT !.len = MIN_SALT_LEN - 1])))
          [] kind = "iter_none" ->
                JsonDumps(SetField(doc, "iterations", PyNone))
          [] kind = "iter_digits" ->
                JsonDumps(SetField(doc, "iterations",
                                   IntToStr(int(doc.dict.iterations).int)))
          [] kind = "iter_word" ->
                JsonDumps(SetField(doc, "iterations", [chars |-> <<"x">>]))
          [] kind = "no_ciphertext" -> JsonDumps(DelField(doc, "ciphertext"))
          [] kind = "ct_int" ->
                JsonDumps(SetField(doc, "ciphertext", PyInt(0)))
          [] kind = "ct_flipped" ->
                JsonDumps(SetField(doc, "ciphertext",
                    B64Encode([token EXCEPT !.key = NoKey])))

\* main killed inside open_db on the first start.
TabOpenCrash ==
    /\ form = "tabular"
    /\ pc = "closed"
    /\ ~dbExists
    /\ dbExists' = open_db_cut.exists
    /\ meta' = open_db_cut.meta
    /\ last' = Report("open", <<>>, <<>>, "crashed", <<>>, FALSE)
    /\ UNCHANGED <<form, pc, secrets, docVars, password, fernet, rot,
                   nextSalt, userPw, rotated, snap, masterPw>>

\* load_or_init_vault killed inside the write_vault_doc of line 101.
DocOpenCrash(p, at) ==
    /\ form = "document"
    /\ pc = "closed"
    /\ ~file.exists
    /\ nextSalt <= MaxSalts
    /\ LET empty_doc == encrypt_vault_dict(<<>>, p, Urandom(nextSalt),
                                           KDF_ITERATIONS)
       IN  /\ empty_doc.ok
           /\ file' = write_vault_doc_cut(file, empty_doc.doc, at)
    /\ nextSalt' = nextSalt + 1
    /\ masterPw' = IF at = "after_dump" THEN p ELSE masterPw
    /\ last' = Report("open", <<>>, p, "crashed", <<>>, FALSE)
    /\ UNCHANGED <<form, pc, dbVars, vault, password, fernet, rot, userPw,
                   rotated, snap>>

\* Option 1 killed inside the write_vault_doc of save_vault, line 119.
DocPutCrash(n, c, at) ==
    /\ form = "document"
    /\ pc = "menu"
    /\ Strip(n) # <<>>
    /\ LET new_vault == DictSet(vault, Strip(n), Strip(c))
           si == get_salt_and_iterations(read_vault_doc(file).doc)
           new_doc == encrypt_vault_dict(new_vault, password, si.salt,
                                         si.iterations)
       IN  file' = write_vault_doc_cut(file, new_doc.doc, at)
    /\ pc' = "closed"
    /\ vault' = <<>>
    /\ password' = <<>>
    /\ userPw' = <<>>
    /\ snap' = NoSnap
    /\ last' = Report("put", n, c, "crashed", <<>>, FALSE)
    /\ UNCHANGED <<form, dbVars, fernet, rot, nextSalt, rotated, masterPw>>

\* Between two runs the file is overwritten by something else.
FileDamaged(kind) ==
    /\ form = "document"
    /\ pc = "closed"
    /\ file.exists
    /\ load_existing(file, masterPw).res = "ok"
    /\ file' = [file EXCEPT !.doc = Damaged(file.doc, kind)]
    /\ snap' = NoSnap
    /\ last' = Report("damage", <<>>, <<>>, kind, <<>>, TRUE)
    /\ UNCHANGED <<form, pc, dbVars, vault, password, fernet, rot, nextSalt,
                   userPw, rotated, masterPw>>

Faults ==
    \/ TabOpenCrash
    \/ \E p \in PasswordInputs, at \in CutPoints : DocOpenCrash(p, at)
    \/ \E n \in NameInputs, c \in CredInputs, at \in CutPoints :
          DocPutCrash(n, c, at)
    \/ \E kind \in DamageKinds : FileDamaged(kind)

NextFaults == Next \/ Faults

\* The program with its interruptions and with files it did not write.
SpecFaults == Init /\ [][NextFaults]_vars

\* ================================================================== claims
\* What the current process can retrieve for a stored name.
Lookup(service) ==
    IF form = "tabular" THEN TabGet(secrets, fernet, service)
    ELSE DictGet(vault, service)

\* The entries of the store in use, in storage order.
StoreRows == IF form = "tabular" THEN secrets ELSE vault

OtherRows(rows, service) == SelectSeq(rows, LAMBDA r : r.service # service)

\* The salt and iterations of meta are those of the key of every row.
ParamsMatchRows ==
    \A i \in 1..Len(secrets) :
        /\ secrets[i].ciphertext.key.salt = get_params(meta).salt
        /\ secrets[i].ciphertext.key.iters = get_params(meta).iterations

AllRowsUnder(key) ==
    \A i \in 1..Len(secrets) : FernetDecrypt(key, secrets[i].ciphertext).ok

\* The process has just been started on a store the previous process left.
JustReopened == last.op = "open" /\ snap.valid

\* C1: rotation is atomic on durable storage.  In every durable state inside
\* change_master_password after its validation, and in the state a crash or
\* an error leaves, meta and the rows belong together: the old parameters
\* with every row under the old key, or the new parameters with every row
\* under the new key.
C1_RotationAtomic ==
    /\ pc = "reencrypt" =>
          \/ meta = rot.old_meta /\ AllRowsUnder(fernet)
          \/ /\ meta = CommitNewParams(rot.old_meta, rot.new_salt)
             /\ AllRowsUnder(derive_fernet_key(rot.new_pw_1, rot.new_salt,
                                               KDF_ITERATIONS))
    /\ (last.op = "rotate"
        /\ last.res \in {"rotated", "reencrypt_error", "crashed"})
          => ParamsMatchRows

\* C2: when the re-encryption write fails, change_master_password returns the
\* old key and the vault is as before the rotation began: meta holds the old
\* salt and iterations and every row decrypts under the old key.
C2_FailedRotationRestores ==
    [][(pc = "reencrypt" /\ last'.op = "rotate"
        /\ last'.res = "reencrypt_error")
       => /\ fernet' = fernet
          /\ meta' = rot.old_meta
          /\ secrets' = secrets
          /\ \A i \in 1..Len(secrets') :
                FernetDecrypt(fernet', secrets'[i].ciphertext).ok]_vars

\* C3: a rotation that aborts in its validation phase (a row that does not
\* decrypt under the old key, or a new password that is empty or differs
\* from its confirmation) modifies no persisted state and returns the old
\* key as the session key.
C3_ValidationAbortKeepsState ==
    [][(pc = "menu" /\ last'.op = "rotate"
        /\ last'.res \in {"decrypt_failed", "bad_password"})
       => /\ meta' = meta
          /\ secrets' = secrets
          /\ dbExists' = dbExists
          /\ fernet' = fernet
          /\ pc' = "menu"]_vars

\* C3 witness: a rotation was refused because a stored row did not decrypt.
C3_Witness ==
    /\ last.op = "rotate"
    /\ last.res = "decrypt_failed"
    /\ secrets # <<>>
    /\ pc = "menu"

\* C4: after a successful rotation, closing the session and reopening with
\* the new password as the user supplied it gives a session in which every
\* entry is retrievable unchanged, with the same set of stored names.
C4_ReopenAfterRotation ==
    (JustReopened /\ snap.rotated = "ok" /\ last.cred = snap.pw)
       => /\ last.res = "ok"
          /\ \A e \in snap.entries :
                Lookup(e[1]) = [res |-> "found", out |-> e[2]]
          /\ StoredNames(secrets) = snap.names

\* C5 as stated: for any non-empty name N and any credential C (the empty
\* string included), storing C under N and retrieving N in the same session
\* yields exactly C, in both forms.  N and C are the texts the prompts hand
\* over, that is, trimmed; a put whose confirmation does not match or whose
\* INSERT raises is no store and is left out.
C5_PutGetAsStated ==
    (last.op = "put" /\ Strip(last.name) # <<>>
     /\ last.res \notin {"mismatch", "dberror"})
       => Lookup(Strip(last.name))
             = [res |-> "found", out |-> Strip(last.cred)]

\* C5: for any name N whose trimmed text is non-empty and any credential C,
\* a put reported as stored followed by a get of N in the same session
\* yields C with its surrounding whitespace removed.  The document form
\* stores every credential, the empty one included; the tabular form stores
\* it only when its trimmed text is non-empty.
C5_PutGetRoundTrip ==
    /\ (last.op = "put" /\ last.res = "stored")
          => /\ Strip(last.name) # <<>>
             /\ Lookup(Strip(last.name))
                   = [res |-> "found", out |-> Strip(last.cred)]
             /\ form = "tabular" => Strip(last.cred) # <<>>
    /\ (last.op = "put" /\ form = "document" /\ Strip(last.name) # <<>>)
          => last.res = "stored"
    /\ (last.op = "put" /\ form = "tabular" /\ Strip(last.cred) = <<>>)
          => last.res \in {"empty_name", "empty_key"}

\* C5 witness: a put that replaced an entry was stored, with whitespace
\* trimmed from what was typed.
C5_Witness ==
    /\ last.op = "put"
    /\ last.res = "stored"
    /\ last.had
    /\ Strip(last.cred) # last.cred
    /\ Strip(last.name) # last.name

\* C6: the store holds at most one credential per name; a put of C2 under a
\* name N leaves exactly one entry for N, from which C2 is retrieved, and
\* leaves every other entry as it was.
C6_LastWriteWins ==
    [][/\ \A i, j \in 1..Len(StoreRows') :
             StoreRows'[i].service = StoreRows'[j].service => i = j
       /\ (last'.op = "put" /\ last'.res = "stored" /\ pc = "menu")
             => LET N == Strip(last'.name)
                IN  /\ Len(SelectSeq(StoreRows', LAMBDA r : r.service = N)) = 1
                    /\ IF form = "tabular"
                       THEN TabGet(secrets', fernet', N)
                               = [res |-> "found", out |-> Strip(last'.cred)]
                       ELSE DictGet(vault', N)
                               = [res |-> "found", out |-> Strip(last'.cred)]
                    /\ OtherRows(StoreRows', N) = OtherRows(StoreRows, N)]_vars

\* C6 witness: a put overwrote the credential of a name while another name
\* was stored.
C6_Witness ==
    /\ last.op = "put"
    /\ last.res = "stored"
    /\ last.had
    /\ Len(StoreRows) = 2

\* C7: deleting a stored name reports removal and a get of it is then
\* NotFound; deleting a name that is not stored reports no removal; in both
\* cases the other entries and the salt/iterations metadata are unchanged.
C7_DeleteSemantics ==
    [][(pc = "menu" /\ last'.op = "delete"
        /\ last'.res \in {"deleted", "notfound"})
       => LET N == Strip(last'.name)
          IN  /\ (last'.res = "deleted") <=> (RowsOf(secrets, N) # <<>>)
              /\ TabGet(secrets', fernet', N).res = "notfound"
              /\ OtherRows(secrets', N) = OtherRows(secrets, N)
              /\ meta' = meta
              /\ dbExists' = dbExists]_vars

\* C7 witness: a stored name was deleted and another entry remains.
C7_Witness ==
    /\ last.op = "delete"
    /\ last.res = "deleted"
    /\ last.had
    /\ secrets # <<>>

\* C8: list returns the stored names, all of them and no others, each once,
\* in ascending order whatever the insertion order, and whatever key the
\* session holds.
C8_ListSortedNames ==
    last.op = "list"
       => /\ \A i, j \in 1..Len(last.out) :
                i < j => StrLess(last.out[i], last.out[j])
          /\ { last.out[i] : i \in 1..Len(last.out) } = StoredNames(StoreRows)

\* C8 witness: two names were listed that were inserted in descending order,
\* in a session whose key decrypts neither row.
C8_Witness ==
    /\ last.op = "list"
    /\ form = "tabular"
    /\ Len(last.out) = 2
    /\ Len(secrets) = 2
    /\ secrets[1].service = last.out[2]
    /\ \A i \in 1..2 : ~FernetDecrypt(fernet, secrets[i].ciphertext).ok

\* C9: what a session opened with password P could retrieve when it was
\* closed is retrieved, with the same credentials, by the next session
\* opened with the same P, provided the closed session did not rotate.
C9_PersistsAcrossSessions ==
    (JustReopened /\ last.cred = snap.pw /\ snap.rotated = "none")
       => /\ last.res = "ok"
          /\ \A e \in snap.entries :
                Lookup(e[1]) = [res |-> "found", out |-> e[2]]

\* C9 witness: a store with two entries was reopened with the password of
\* the session that was closed.
C9_Witness ==
    /\ JustReopened
    /\ last.cred = snap.pw
    /\ snap.rotated = "none"
    /\ Cardinality(snap.entries) = 2
    /\ pc = "menu"

\* C10: reopening an existing vault with a password other than the one it
\* was created with (or last rotated to) is an authentication failure: no
\* session is established and the persisted state is not modified.
C10_WrongPasswordRefused ==
    [][(pc = "closed" /\ last'.op = "open" /\ last'.had /\ masterPw # <<>>
        /\ last'.cred # <<>> /\ last'.cred # masterPw)
       => /\ last'.res = "InvalidToken"
          /\ pc' = "closed"
          /\ <<dbExists', meta', secrets', file'>>
                = <<dbExists, meta, secrets, file>>]_vars

\* A value is a Fernet token made by a derived key: its payload is readable
\* only through FernetDecrypt with that key.
IsCiphertext(t) == DOMAIN t = {"key", "payload"} /\ t.key.ok

\* A value is stored in the clear, under the encoding named by field.
IsCleartext(v, field) == DOMAIN v = {field}

\* C11: at rest every credential is a ciphertext of the authenticated cipher,
\* never a plaintext: each row of the database holds a token in its ciphertext
\* column, the document file holds one token over the whole entry set, and
\* the salt and the iteration count stand beside them unencrypted.
C11_CiphertextAtRest ==
    /\ \A i \in 1..Len(secrets) : IsCiphertext(secrets[i].ciphertext)
    /\ (dbExists /\ form = "tabular") =>
          /\ DOMAIN meta = {"salt", "iterations"}
          /\ IsCleartext(meta["salt"], "b64")
          /\ IsCleartext(meta["iterations"], "digits")
    /\ file.exists =>
          LET doc == read_vault_doc(file).doc.dict
          IN  /\ IsCleartext(doc.ciphertext, "b64")
              /\ IsCiphertext(B64Decode(doc.ciphertext))
              /\ IsCleartext(doc.salt, "b64")
              /\ doc.iterations = PyInt(KDF_ITERATIONS)

\* C11 witness: a closed database with two rows whose credentials differ.
C11_Witness ==
    /\ pc = "closed"
    /\ Len(secrets) = 2
    /\ secrets[1].ciphertext.payload # secrets[2].ciphertext.payload

\* The salt and the iteration count as the store in use holds them.
StoredParams ==
    IF form = "tabular" THEN get_params(meta)
    ELSE get_salt_and_iterations(read_vault_doc(file).doc)

\* C12: only rotation changes the salt and the iteration count.  A put, a
\* get, a list or a delete, whatever its outcome, leaves meta as it was, and
\* in the document form the record save_vault writes carries the salt and the
\* iteration count of the record it read.
C12_ParamsChangeOnlyOnRotation ==
    [][(pc = "menu" /\ last'.op \in {"put", "get", "list", "delete"})
       => /\ meta' = meta
          /\ StoredParams' = StoredParams]_vars

\* C12 witness: the document form has saved a second entry, and so has
\* re-encrypted a file that already held one.
C12_Witness ==
    /\ form = "document"
    /\ last.op = "put"
    /\ last.res = "stored"
    /\ Len(vault) = 2







\* C13: opening an existing document-form vault ends in exactly one typed
\* outcome: the decoded entry set, the authentication failure (InvalidToken,
\* "wrong master password or corrupted") or the malformed-vault failure
\* (ValueError, "vault file is malformed"); no other kind of error leaves
\* load_or_init_vault, and after either failure the file is as it was.
C13_TypedOpenOutcomes ==
    [][(form = "document" /\ pc = "closed" /\ last'.op = "open" /\ last'.had)
       => /\ last'.res \in {"ok", "InvalidToken", "ValueError"}
          /\ last'.res = "ok" <=> pc' = "menu"
          /\ last'.res # "ok" => file' = file]_vars

\* C14: invalid input is detected before durable state is touched.  When a
\* session start is refused for an empty master password, or an operation
\* for an empty name, no backing file or database has been created or
\* modified by it.
C14_InvalidInputTouchesNothing ==
    [][(\/ /\ pc = "closed"
           /\ last'.op = "open"
           /\ last'.res = "ValueError"
           /\ last'.cred = <<>>
        \/ /\ pc = "menu"
           /\ last'.op \in {"put", "get", "delete"}
           /\ last'.res = "empty_name")
       => /\ dbExists' = dbExists
          /\ file'.exists = file.exists
          /\ meta' = meta
          /\ secrets' = secrets
          /\ file' = file]_vars

\* C15: a write of the document file completes or rolls back entirely.  When
\* save_vault is interrupted the file holds a complete record, the previous
\* one or the new one, so that opening it with the password of the
\* interrupted session succeeds.
C15_WriteAllOrNothing ==
    (form = "document" /\ last.op = "put" /\ last.res = "crashed")
       => /\ read_vault_doc(file).res = "ok"
          /\ load_existing(file, masterPw).res = "ok"





\* C16: the single-key invariant of the tabular store.  Whatever sessions
\* ran, each under whatever password it was given, and whatever they put,
\* deleted or rotated, every row of the secrets table is encrypted under one
\* and the same key: no session has inserted or replaced a row under a key
\* other than the one the rows already there are under.
C16_SingleKey ==
    form = "tabular" =>
       \A i \in 1..Len(secrets) : \A j \in 1..Len(secrets) :
           secrets[i].ciphertext.key = secrets[j].ciphertext.key

\* C17: once open_db has returned, meta holds both the salt and the
\* iteration count, and get_params does not fail; this holds as well when an
\* earlier first start was killed after the database file had been created
\* and before the metadata were committed.
C17_OpenEnsuresParams ==
    (form = "tabular" /\ last.op = "open" /\ last.res # "crashed")
       => /\ dbExists
          /\ get_params(meta).ok

====
